---- MODULE Spec2Model ----
(***************************************************************************)
(* The HTTP(S) C2 listener of server/c2/http.go as a state machine: the    *)
(* router and nonce filter, the session store, the session-start           *)
(* handshake, ingress with its replay set, the long poll and stop.         *)
(* Every request is one handler goroutine; handlers interleave at their    *)
(* accesses to shared state (the store, the registry, a session's replay   *)
(* map, a session's Send channel).                                         *)
(***************************************************************************)
EXTENDS Integers, Sequences, FiniteSets, TLC

\* ------------------------------------------------------------------ bounds
\* Handler goroutines that can be in flight at once.
Handlers == {1, 2}
\* Sessions one run may start (newHTTPSessionID / core.NextSessionID values).
MaxSessions == 2
\* Requests the listener serves in one run.
MaxRequests == 4
\* Envelopes the operator plane sends in one run.
MaxSends == 1
\* Requests one run serves when every path, method and query may arrive.
MaxRouted == 2

\* ------------------------------------------------------------ HTTP statuses
StatusOK == 200
StatusAccepted == 202
StatusNoContent == 204
StatusForbidden == 403
StatusNotFound == 404
StatusMethodNotAllowed == 405

\* ------------------------------------------------------- encoder registry
\* util/encoders: the nonce modulo EncoderModulus selects the encoder, and
\* a nonce outside the known set is refused.
EncoderModulus == 10
EncoderMap == {1, 2}

EncoderFromNonce(nonce) ==
    LET id == nonce % EncoderModulus
    IN  IF id \in EncoderMap THEN [err |-> FALSE, id |-> id]
        ELSE [err |-> TRUE, id |-> 0]

\* An encoded body remembers the encoder that produced it; decoding with
\* another encoder is a DecodeError.  Every value that travels in a body
\* is a record tagged with its kind k.
NoBody == [k |-> "empty"]
DecodeError == [k |-> "decodeError"]
Encode(enc, data) == [k |-> "encoded", enc |-> enc, data |-> data]
Decode(enc, body) ==
    IF body.k = "empty" THEN NoBody
    ELSE IF body.k = "encoded" /\ body.enc = enc THEN body.data
    ELSE DecodeError

\* ---------------------------------------------------------------- crypto
\* cryptography.AESKeyFromBytes: a key is AESKeySize bytes; any other
\* length is an error and the zero key is returned with it.
AESKeySize == 2
ZeroKey == <<0, 0>>
KeyA == <<1, 1>>
KeyB == <<2, 2>>
ShortKey == <<1>>

AESKeyFromBytes(data) ==
    IF Len(data) # AESKeySize
    THEN [key |-> ZeroKey, err |-> TRUE]
    ELSE [key |-> data, err |-> FALSE]

\* cryptography.GCMEncrypt / GCMDecrypt: a blob opens only under the key
\* that sealed it; n is the per-message nonce drawn inside the sealer.
CryptoError == [k |-> "cryptoError"]
GCMSeal(key, n, plaintext) == [k |-> "gcm", key |-> key, n |-> n, pt |-> plaintext]
GCMDecrypt(key, blob) ==
    IF blob.k = "gcm" /\ blob.key = key THEN blob.pt ELSE CryptoError

\* cryptography.RSADecrypt under the C2 server key of conf.Domain.
RSAEncrypt(plaintext) == [k |-> "rsa", pt |-> plaintext]
RSADecrypt(data) ==
    IF data.k = "rsa" THEN data.pt ELSE CryptoError

\* proto.Unmarshal into sliverpb.HTTPSessionInit: the error is dropped by
\* the caller, and a record that did not parse has an empty Key.
GarbageInit == [k |-> "garbage"]
SessionInit(keyBytes) == [k |-> "sessionInit", Key |-> keyBytes]
UnmarshalSessionInit(data) ==
    IF data.k = "sessionInit" THEN data.Key ELSE <<>>

\* sha256 + base64.RawStdEncoding of the blob: injective on the blobs of
\* the model.
Digest(ciphertext) == [k |-> "sha256", of |-> ciphertext]

\* ------------------------------------------------------------ URL and nonce
\* A query value is a sequence of characters.  The URL's query is the set
\* of first values of its one-character-named parameters: url.Values is a
\* Go map, and ranging over it visits the parameters in no fixed order.
Digits == {"0", "1", "2", "3", "4", "5", "6", "7", "8", "9"}
DigitVal(c) ==
    CASE c = "0" -> 0 [] c = "1" -> 1 [] c = "2" -> 2 [] c = "3" -> 3
      [] c = "4" -> 4 [] c = "5" -> 5 [] c = "6" -> 6 [] c = "7" -> 7
      [] c = "8" -> 8 [] c = "9" -> 9

RECURSIVE digitsOnly(_)
digitsOnly(value) ==
    IF value = <<>> THEN <<>>
    ELSE IF Head(value) \in Digits
         THEN <<Head(value)>> \o digitsOnly(Tail(value))
         ELSE digitsOnly(Tail(value))

RECURSIVE Atoi(_)
Atoi(s) ==
    IF s = <<>> THEN 0
    ELSE 10 * Atoi(SubSeq(s, 1, Len(s) - 1)) + DigitVal(s[Len(s)])

\* getNonceFromURL once the loop has picked the parameter with this value.
NonceOfValue(value) ==
    LET qNonce == digitsOnly(value)
    IN  IF qNonce = <<>> THEN [err |-> TRUE, nonce |-> 0]
        ELSE IF EncoderFromNonce(Atoi(qNonce)).err THEN [err |-> TRUE, nonce |-> 0]
        ELSE [err |-> FALSE, nonce |-> Atoi(qNonce)]

\* The results one evaluation of getNonceFromURL can return: the loop
\* breaks at the first one-character parameter the map iteration yields.
getNonceFromURL(query) ==
    IF query = {} THEN {[err |-> TRUE, nonce |-> 0]}
    ELSE {NonceOfValue(v) : v \in query}

\* A filter that lets every request through.
filterNonceAll(nonceResult) == TRUE
filterNonce(nonceResult) == ~nonceResult.err

ParamValues == {<<"x", "1">>, <<"x">>, <<"7">>}
Queries == {q \in SUBSET ParamValues : Cardinality(q) <= 2}
HasValidNonce(query) == \E v \in query : ~NonceOfValue(v).err

\* ------------------------------------------------------------------ router
\* A path is its extension and whether it contains ".woff" (the stager
\* route's pattern matches anywhere in the path).
C2Exts == {"txt", "phtml", "php", "js", "png"}
Exts == C2Exts \cup {"other"}
Methods == {"GET", "POST", "PUT"}

RouteMethods(ext) ==
    CASE ext = "txt" -> {"GET"}
      [] ext = "phtml" -> {"GET", "POST"}
      [] ext = "php" -> {"GET", "POST"}
      [] ext = "js" -> {"GET"}
      [] ext = "png" -> {"GET"}

RouteHandler(ext) ==
    CASE ext = "txt" -> "rsaKeyHandler"
      [] ext = "phtml" -> "startSessionHandler"
      [] ext = "php" -> "sessionHandler"
      [] ext = "js" -> "pollHandler"
      [] ext = "png" -> "stopHandler"

\* The first route, in registration order, whose path pattern, nonce
\* filter and methods all match; mux answers 405 when none matches (the
\* catch-all's pattern matches every path, so only a method can miss).
router(path, method, nonceOK, website) ==
    IF path.ext \in C2Exts /\ nonceOK /\ method \in RouteMethods(path.ext)
    THEN RouteHandler(path.ext)
    ELSE IF path.woff /\ method = "GET" THEN "stagerHander"
    ELSE IF website /\ method = "GET" THEN "websiteContentHandler"
    ELSE IF ~website /\ method \in {"GET", "POST"} THEN "default404Handler"
    ELSE "methodNotAllowed"

\* ------------------------------------------------------- response writer
\* What the client receives.  The first WriteHeader fixes the status and
\* the headers; a Write without one sends 200; a handler that panics is
\* recovered by net/http, which closes the connection.
NoResp == [status |-> 0, body |-> NoBody, cookie |-> 0, etag |-> 0, aborted |-> FALSE]
WriteHeader(r, code) == IF r.status = 0 THEN [r EXCEPT !.status = code] ELSE r
Write(r, b) == [WriteHeader(r, StatusOK) EXCEPT !.body = b]
SetCookie(r, value) == IF r.status = 0 THEN [r EXCEPT !.cookie = value] ELSE r
SetEtag(r, value) == IF r.status = 0 THEN [r EXCEPT !.etag = value] ELSE r
Panic(r) == [r EXCEPT !.aborted = TRUE]
\* The handler returns: a response without a status goes out as 200.
Return(r) == IF r.aborted THEN r ELSE WriteHeader(r, StatusOK)

StageBlob == [k |-> "stage"]
SiteContent == [k |-> "content"]
CertPEM == [k |-> "certPEM"]

\* ------------------------------------------------------------------ inputs
IDs == 1 .. MaxSessions
\* Cookie value 0 stands for a value that is no issued session id.
CookieJars == {<<>>, <<0, 1>>} \cup {<<v>> : v \in IDs}
Paths == [ext : Exts, woff : BOOLEAN]

\* Envelopes an implant sends: sliverpb.Envelope{ID, Type}.
Envelopes == {[k |-> "envelope", ID |-> 0, Type |-> 1]}
\* Envelopes the operator plane sends to an implant; seq numbers the sends.
OperatorEnvelopes == {[k |-> "envelope", ID |-> 7, Type |-> 2, seq |-> 0]}
\* Envelopes of every kind the dispatch tells apart: a reply to a request
\* id, and an envelope of a type no handler is registered for.
DispatchEnvelopes == Envelopes \cup {[k |-> "envelope", ID |-> 7, Type |-> 1],
                                     [k |-> "envelope", ID |-> 0, Type |-> 9]}
MsgNonces == {1, 2}
\* The ciphertext blobs a client sends on ingress and stop: two sealed
\* under KeyA and one under another key.
ImplantBlobs == {GCMSeal(KeyA, n, e) : n \in MsgNonces, e \in Envelopes}
DispatchBlobs == {GCMSeal(KeyA, 1, e) : e \in DispatchEnvelopes}
                 \cup {GCMSeal(KeyA, n, e) : n \in MsgNonces,
                                             e \in {d \in DispatchEnvelopes : d.ID # 0}}
ForeignBlobs == {GCMSeal(KeyB, 1, e) : e \in Envelopes}
Blobs == ImplantBlobs \cup DispatchBlobs \cup ForeignBlobs
\* The bodies a client sends on ingress and stop: none, a blob under the
\* encoder of the nonce, or a body under another encoder.
SessionBodies == {NoBody} \cup {Encode(1, b) : b \in ImplantBlobs \cup ForeignBlobs}
                 \cup {Encode(2, GCMSeal(KeyA, 1, e)) : e \in Envelopes}
\* The bodies a client sends to session start.
StartPayloads == {RSAEncrypt(SessionInit(kb)) : kb \in {KeyA, ShortKey}}
                 \cup {RSAEncrypt(GarbageInit), [k |-> "notRSA"]}
StartBodies == {NoBody} \cup {Encode(1, p) : p \in StartPayloads}
               \cup {Encode(2, RSAEncrypt(SessionInit(KeyA)))}
OTPs == {"missing", "bad", "good"}
Etags == {1, 2}

C2Handlers == {"rsaKeyHandler", "startSessionHandler", "sessionHandler",
               "pollHandler", "stopHandler"}
SessionMethod(ext) == IF ext \in {"phtml", "php"} THEN "POST" ELSE "GET"
Request(ext, woff, method, query, cookies) ==
    [path |-> [ext |-> ext, woff |-> woff], method |-> method, query |-> query,
     cookies |-> cookies]
NoReq == Request("other", FALSE, "GET", {}, <<>>)

\* What the clients and the environment of one run may do: the requests
\* that arrive and, per step, the outcomes the handler can meet.
\* An implant that follows the protocol, and its replays: the nonce selects
\* encoder 1, bodies are encoded with it.
ProtocolTraffic ==
    [requests |-> {Request(e, FALSE, SessionMethod(e), {<<"x", "1">>}, <<>>) :
                      e \in {"txt", "phtml"}}
                  \cup {Request(e, FALSE, SessionMethod(e), {<<"x", "1">>}, <<v>>) :
                          e \in {"php", "js", "png"}, v \in IDs},
     limit |-> MaxRequests,
     otps |-> {"good"}, certs |-> {TRUE}, readErrs |-> {FALSE}, seals |-> {TRUE},
     founds |-> {TRUE},
     startBodies |-> {Encode(1, RSAEncrypt(SessionInit(KeyA)))},
     sessionBodies |-> {Encode(1, b) : b \in ImplantBlobs}]
\* Any client on the C2 routes: every failure a handler step can meet.
AnyTraffic ==
    [requests |-> {Request(e, FALSE, SessionMethod(e), q, <<>>) :
                      e \in {"txt", "phtml"}, q \in {{<<"x", "1">>}, {<<"x", "1">>, <<"7">>}}}
                  \cup {Request(e, FALSE, SessionMethod(e), {<<"x", "1">>}, c) :
                          e \in {"php", "js", "png"}, c \in CookieJars},
     limit |-> MaxRequests,
     otps |-> OTPs, certs |-> BOOLEAN, readErrs |-> BOOLEAN, seals |-> BOOLEAN,
     founds |-> {TRUE},
     startBodies |-> StartBodies,
     sessionBodies |-> SessionBodies]
\* An implant's ingress with envelopes of every kind, all steps succeeding.
DispatchTraffic ==
    [requests |-> {Request("phtml", FALSE, "POST", {<<"x", "1">>}, <<>>)}
                  \cup {Request("php", FALSE, "POST", {<<"x", "1">>}, <<v>>) : v \in IDs},
     limit |-> MaxRequests,
     otps |-> {"good"}, certs |-> {TRUE}, readErrs |-> {FALSE}, seals |-> {TRUE},
     founds |-> {TRUE},
     startBodies |-> {Encode(1, RSAEncrypt(SessionInit(KeyA)))},
     sessionBodies |-> {Encode(1, b) : b \in DispatchBlobs}]
\* Stop requests whose body can fail at every step of readReqBody, among
\* session starts and ingress: a second one-character parameter selects
\* no encoder.
StopTraffic ==
    [requests |-> {Request("phtml", FALSE, "POST", {<<"x", "1">>}, <<>>)}
                  \cup {Request("php", FALSE, "POST", {<<"x", "1">>}, <<v>>) : v \in IDs}
                  \cup {Request("png", FALSE, "GET", q, <<v>>) :
                          q \in {{<<"x", "1">>}, {<<"x", "1">>, <<"7">>}}, v \in IDs},
     limit |-> MaxRequests,
     otps |-> {"good"}, certs |-> {TRUE}, readErrs |-> BOOLEAN, seals |-> {TRUE},
     founds |-> {TRUE},
     startBodies |-> {Encode(1, RSAEncrypt(SessionInit(KeyA)))},
     sessionBodies |-> SessionBodies]
\* Any request at the router: every path, method and query.
RouterTraffic ==
    [requests |-> {Request(p.ext, p.woff, m, q, <<1>>) :
                      p \in Paths, m \in Methods, q \in Queries},
     limit |-> MaxRouted,
     otps |-> {"good"}, certs |-> {TRUE}, readErrs |-> {FALSE}, seals |-> {TRUE},
     founds |-> BOOLEAN,
     startBodies |-> {Encode(e, RSAEncrypt(SessionInit(KeyA))) : e \in EncoderMap},
     sessionBodies |-> {Encode(e, GCMSeal(KeyA, 1, env)) : e \in EncoderMap, env \in Envelopes}]

\* ------------------------------------------------------------------- state
VARIABLES
    conf,       \* HTTPServerConfig
    pc,         \* each handler goroutine's position
    req,        \* the request a handler serves
    loc,        \* a handler's local variables
    resp,       \* the response a handler has staged
    active,     \* HTTPSessions.active: session id -> *HTTPSession
    sessions,   \* the HTTPSession objects, by id
    registry,   \* core.Sessions: the registered core sessions
    checkin,    \* a core session's last checkin: 0 before the first UpdateCheckin
    Send,       \* senders blocked on a core session's Send channel, in order
    Resp,       \* a core session's response table: request id -> channel
    nextID,     \* sessions created so far
    served,     \* requests arrived so far
    sent,       \* envelopes the operator plane has sent so far
    fatal,      \* the runtime has thrown "concurrent map read and map write"
    accepted,   \* history: per session, how often a blob passed the replay check
    looked,     \* history: per session, the blobs whose replay lookup has run
    stopped,    \* history: sessions whose stop request has completed
    orphaned    \* history: envelopes received by a poll whose client was gone

vars == <<conf, pc, req, loc, resp, active, sessions, registry, checkin, Send,
          Resp, nextID, served, sent, fatal, accepted, looked, stopped, orphaned>>

shared == <<active, sessions, registry, checkin, Send, Resp, nextID>>
history == <<accepted, looked, stopped, orphaned>>

NoLoc == [handler |-> "none", httpSession |-> 0, enc |-> 0, data |-> NoBody,
          plaintext |-> NoBody, key |-> ZeroKey, created |-> 0, fails |-> {},
          cancelled |-> FALSE, sentBefore |-> 0, envelope |-> NoBody,
          stoppedBefore |-> {}, seenBefore |-> FALSE, first |-> FALSE,
          afterReplay |-> 0, target |-> "none", timeout |-> -1]
NoSession == [made |-> FALSE, Key |-> ZeroKey, replay |-> {}]

\* HTTPServerConfig.LongPollTimeoutMilli as configured, in milliseconds.
PollTimeoutMilli == 2
DefaultConf == [Website |-> FALSE, SliverStage |-> FALSE, EnforceOTP |-> FALSE,
                LongPollTimeoutMilli |-> PollTimeoutMilli, LongPollJitterMilli |-> 1]
SessionConfs == [Website : {FALSE}, SliverStage : {FALSE}, EnforceOTP : {TRUE},
                 LongPollTimeoutMilli : {PollTimeoutMilli},
                 LongPollJitterMilli : {0, 1}]
RouterConfs == [Website : BOOLEAN, SliverStage : BOOLEAN, EnforceOTP : {FALSE},
                LongPollTimeoutMilli : {PollTimeoutMilli},
                LongPollJitterMilli : {1}]

InitWith(confs) ==
    /\ conf \in confs
    /\ pc = [h \in Handlers |-> "idle"]
    /\ req = [h \in Handlers |-> NoReq]
    /\ loc = [h \in Handlers |-> NoLoc]
    /\ resp = [h \in Handlers |-> NoResp]
    /\ active = <<>>
    /\ sessions = [i \in IDs |-> NoSession]
    /\ registry = {}
    /\ checkin = [i \in IDs |-> 0]
    /\ Send = [i \in IDs |-> <<>>]
    /\ Resp = [i \in IDs |-> <<>>]
    /\ nextID = 0
    /\ served = 0
    /\ sent = 0
    /\ fatal = FALSE
    /\ accepted = [i \in IDs |-> [b \in Blobs |-> 0]]
    /\ looked = [i \in IDs |-> {}]
    /\ stopped = {}
    /\ orphaned = {}

\* ------------------------------------------------------------ session store
\* A session's ID is its index among the HTTPSession objects.
\* An Add that stores nothing.
AddNothing(store, session) == store
Add(store, session) ==
    [x \in DOMAIN store \cup {session} |-> IF x = session THEN session ELSE store[x]]
Get(store, sessionID) == IF sessionID \in DOMAIN store THEN store[sessionID] ELSE 0
\* A Remove that deletes nothing.
RemoveNothing(store, sessionID) == store
Remove(store, sessionID) == [x \in DOMAIN store \ {sessionID} |-> store[x]]

\* getHTTPSession: the first cookie whose value is a key of the store; 0 is nil.
RECURSIVE getHTTPSession(_, _)
getHTTPSession(store, cookies) ==
    IF cookies = <<>> THEN 0
    ELSE IF Get(store, Head(cookies)) # 0 THEN Get(store, Head(cookies))
    ELSE getHTTPSession(store, Tail(cookies))

\* A lookup that finds every digest.
isReplayAttackAlways(replay, ciphertext) == ciphertext # NoBody
\* A lookup that never finds the digest.
isReplayAttackNever(replay, ciphertext) == FALSE
\* isReplayAttack, the lookup: whether the digest is in the replay map.
isReplayAttack(replay, ciphertext) ==
    IF ciphertext = NoBody THEN FALSE ELSE Digest(ciphertext) \in replay
\* isReplayAttack, the assignment s.replay[digest] = true.
RecordDigest(replay, ciphertext) == replay \cup {Digest(ciphertext)}

\* Session.UpdateCheckin stores the current time; the model keeps whether
\* a checkin was ever stored.
UpdateCheckin(last) == 1

\* newHTTPSessionID: 16 random bytes; the model issues each id once.
newHTTPSessionID == nextID + 1

\* insecureRand.Intn(n): a number in [0, n); it panics unless n is positive,
\* and then there is no result.
Intn(n) == 0 .. n - 1
\* getPollTimeout: the timeouts in milliseconds it can return.
getPollTimeout(c) == {c.LongPollTimeoutMilli + r : r \in Intn(c.LongPollJitterMilli)}
getPollTimeoutPanics == getPollTimeout(conf) = {}

\* randomEtag: 16 random bytes in hex.
randomEtag == Etags

\* ------------------------------------------------------------------ actions
Step(h, newpc, newloc, newresp) ==
    /\ pc' = [pc EXCEPT ![h] = newpc]
    /\ loc' = [loc EXCEPT ![h] = newloc]
    /\ resp' = [resp EXCEPT ![h] = IF newpc = "done" THEN Return(newresp) ELSE newresp]

\* Start requests that have yet to draw their session id.
Starting == {g \in Handlers : pc[g] \in {"startSessionHandler", "register"}}

\* The response of the routes that are no C2 handler.
StaticResponse(handler, stage, found) ==
    CASE handler = "stagerHander" ->
            IF stage THEN WriteHeader(Write(NoResp, StageBlob), StatusOK)
            ELSE WriteHeader(NoResp, StatusNotFound)
      [] handler = "websiteContentHandler" ->
            IF found THEN Write(NoResp, SiteContent)
            ELSE WriteHeader(NoResp, StatusNotFound)
      [] handler = "default404Handler" -> WriteHeader(NoResp, StatusNotFound)
      [] handler = "methodNotAllowed" -> WriteHeader(NoResp, StatusMethodNotAllowed)

\* A request arrives (on a goroutine whose last response has gone out) and
\* the router picks its handler.
Arrive(h, T) ==
    /\ ~fatal
    /\ pc[h] \in {"idle", "done"}
    /\ served < T.limit
    /\ \E r \in T.requests :
       \E n \in getNonceFromURL(r.query) :
          LET handler == router(r.path, r.method, filterNonce(n), conf.Website)
          IN  /\ handler = "startSessionHandler" =>
                    nextID + Cardinality(Starting) < MaxSessions
              /\ req' = [req EXCEPT ![h] = r]
              /\ IF handler \in C2Handlers
                 THEN Step(h, handler,
                           [NoLoc EXCEPT !.handler = handler, !.stoppedBefore = stopped,
                                         !.afterReplay = IF loc[h].fails = {"replay"}
                                                         THEN loc[h].httpSession ELSE 0],
                           NoResp)
                 ELSE \E found \in T.founds :
                        Step(h, "done", [NoLoc EXCEPT !.handler = handler],
                             StaticResponse(handler, conf.SliverStage, found))
    /\ served' = served + 1
    /\ UNCHANGED <<conf, shared, sent, fatal, history>>

\* The OTP gate of rsaKeyHandler and startSessionHandler.
OTPGate(otp) == conf.EnforceOTP => otp = "good"

\* rsaKeyHandler, whole: a nil encoder panics in encoder.Encode.
RsaKeyHandler(h, T) ==
    /\ ~fatal
    /\ pc[h] = "rsaKeyHandler"
    /\ \E otp \in T.otps :
          IF ~OTPGate(otp)
          THEN Step(h, "done", [loc[h] EXCEPT !.fails = {"otp"}],
                    WriteHeader(resp[h], StatusNotFound))
          ELSE \E n \in getNonceFromURL(req[h].query) :
                 LET encoder == EncoderFromNonce(n.nonce)
                 IN  IF encoder.err
                     THEN Step(h, "done", [loc[h] EXCEPT !.fails = {"encoder"}],
                               Panic(resp[h]))
                     ELSE Step(h, "done", loc[h],
                               Write(resp[h], Encode(encoder.id, CertPEM)))
    /\ UNCHANGED <<conf, req, shared, served, sent, fatal, history>>

\* startSessionHandler up to the decrypted SessionInit (lines 464-522).
\* A failed body read writes 404 and goes on with what was read.
StartSessionHandler(h, T) ==
    /\ ~fatal
    /\ pc[h] = "startSessionHandler"
    /\ LET r404 == WriteHeader(resp[h], StatusNotFound)
           fail(steps) == [loc[h] EXCEPT !.fails = steps]
       IN  \E otp \in T.otps :
           IF ~OTPGate(otp) THEN Step(h, "done", fail({"otp"}), r404)
           ELSE \E certOK \in T.certs :
           IF ~certOK THEN Step(h, "done", fail({"keypair"}), r404)
           ELSE \E n \in getNonceFromURL(req[h].query) :
           LET encoder == EncoderFromNonce(n.nonce)
           IN  IF encoder.err THEN Step(h, "done", fail({"encoder"}), r404)
               ELSE \E readErr \in T.readErrs, sent0 \in T.startBodies :
                    LET data == Decode(encoder.id, sent0)
                        sessionInitData == RSADecrypt(data)
                        failRead == IF readErr THEN {"read"} ELSE {}
                    IN  IF data = DecodeError
                        THEN Step(h, "done", fail(failRead \cup {"decode"}), r404)
                        ELSE IF sessionInitData = CryptoError
                        THEN Step(h, "done", fail(failRead \cup {"rsa"}), r404)
                        ELSE Step(h, "register",
                                  [loc[h] EXCEPT !.fails = failRead, !.enc = encoder.id,
                                                 !.plaintext = sessionInitData],
                                  IF readErr THEN r404 ELSE resp[h])
    /\ UNCHANGED <<conf, req, shared, served, sent, fatal, history>>

\* Lines 524-534: the new session, its key, its registration with
\* core.Sessions and its first checkin.
RegisterSession(h) ==
    /\ ~fatal
    /\ pc[h] = "register"
    /\ LET id == newHTTPSessionID
           keyBytes == UnmarshalSessionInit(loc[h].plaintext)
           aes == AESKeyFromBytes(keyBytes)
           failed == (IF loc[h].plaintext = GarbageInit THEN {"unmarshal"} ELSE {})
                     \cup (IF aes.err THEN {"keylen"} ELSE {})
       IN  /\ nextID' = id
           /\ sessions' = [sessions EXCEPT ![id] = [made |-> TRUE, Key |-> aes.key, replay |-> {}]]
           /\ registry' = registry \cup {id}
           /\ checkin' = [checkin EXCEPT ![id] = UpdateCheckin(@)]
           /\ Step(h, "publish",
                   [loc[h] EXCEPT !.created = id, !.httpSession = id, !.key = aes.key,
                                  !.fails = @ \cup failed],
                   resp[h])
    /\ UNCHANGED <<Resp, conf, req, active, Send, served, sent, fatal, history>>

\* Line 535: s.HTTPSessions.Add(httpSession).
PublishSession(h) ==
    /\ ~fatal
    /\ pc[h] = "publish"
    /\ active' = Add(active, loc[h].httpSession)
    /\ Step(h, "respond", loc[h], resp[h])
    /\ UNCHANGED <<Resp, conf, req, sessions, registry, checkin, Send, nextID, served, sent,
                   fatal, history>>

\* Lines 538-551: seal the session id, set the cookie, write the body.
RespondSession(h, T) ==
    /\ ~fatal
    /\ pc[h] = "respond"
    /\ \E sealOK \in T.seals :
          IF ~sealOK
          THEN Step(h, "done", [loc[h] EXCEPT !.fails = @ \cup {"seal"}],
                    WriteHeader(resp[h], StatusNotFound))
          ELSE Step(h, "done", loc[h],
                    Write(SetCookie(resp[h], loc[h].httpSession),
                          Encode(loc[h].enc,
                                 GCMSeal(loc[h].key, 0,
                                         [k |-> "id", id |-> loc[h].httpSession]))))
    /\ UNCHANGED <<conf, req, shared, served, sent, fatal, history>>

\* The head of sessionHandler, pollHandler and stopHandler: getHTTPSession
\* with its UpdateCheckin; on nil the log line dereferences httpSession.ID
\* and panics before the 403 is written.  pollHandler goes on to its
\* encoder and to the select, whose timeout is evaluated on entry.
LookupSession(h) ==
    /\ ~fatal
    /\ pc[h] \in {"sessionHandler", "pollHandler", "stopHandler"}
    /\ LET httpSession == getHTTPSession(active, req[h].cookies)
       IN  IF httpSession = 0
           THEN /\ Step(h, "done", loc[h], Panic(resp[h]))
                /\ UNCHANGED checkin
           ELSE /\ checkin' = [checkin EXCEPT ![httpSession] = UpdateCheckin(@)]
                /\ IF pc[h] = "pollHandler"
                   THEN \E n \in getNonceFromURL(req[h].query) :
                          LET l == [loc[h] EXCEPT !.httpSession = httpSession,
                                         !.key = sessions[httpSession].Key,
                                         !.enc = EncoderFromNonce(n.nonce).id]
                          IN  IF getPollTimeoutPanics
                              THEN Step(h, "done", l, Panic(resp[h]))
                              ELSE \E t \in getPollTimeout(conf) :
                                      Step(h, "select", [l EXCEPT !.timeout = t],
                                           resp[h])
                   ELSE Step(h, "readReqBody",
                             [loc[h] EXCEPT !.httpSession = httpSession,
                                            !.key = sessions[httpSession].Key],
                             resp[h])
    /\ UNCHANGED <<Resp, conf, req, active, sessions, registry, Send, nextID, served, sent,
                   fatal, history>>

\* readReqBody up to the lookup in the replay map (lines 612-637, 90-99).
\* A failed read returns without a status; an empty blob skips the map
\* and fails GCMDecrypt.
ReadReqBody(h, T) ==
    /\ ~fatal
    /\ pc[h] = "readReqBody"
    /\ LET i == loc[h].httpSession
           fail(step) == [loc[h] EXCEPT !.fails = {step}]
       IN  \E n \in getNonceFromURL(req[h].query) :
           LET encoder == EncoderFromNonce(n.nonce)
           IN  IF encoder.err
               THEN /\ Step(h, "done", fail("encoder"), WriteHeader(resp[h], StatusNotFound))
                    /\ UNCHANGED looked
               ELSE \E readErr \in T.readErrs :
               IF readErr
               THEN /\ Step(h, "done", fail("read"), resp[h])
                    /\ UNCHANGED looked
               ELSE \E sent0 \in T.sessionBodies :
               LET data == Decode(encoder.id, sent0)
               IN  IF data = DecodeError
                   THEN /\ Step(h, "done", fail("decode"),
                                WriteHeader(resp[h], StatusNotFound))
                        /\ UNCHANGED looked
                   ELSE IF data = NoBody
                   THEN /\ Step(h, "done", fail("decrypt"), resp[h])
                        /\ UNCHANGED looked
                   ELSE /\ looked' = [looked EXCEPT ![i] = @ \cup {data}]
                        /\ LET l == [loc[h] EXCEPT !.data = data,
                                          !.first = data \notin looked[i],
                                          !.seenBefore = accepted[i][data] > 0]
                           IN  IF isReplayAttack(sessions[i].replay, data)
                               THEN Step(h, "done", [l EXCEPT !.fails = {"replay"}],
                                         WriteHeader(resp[h], StatusNotFound))
                               ELSE Step(h, "replayRecord", l, resp[h])
    /\ UNCHANGED <<conf, req, shared, served, sent, fatal, accepted, stopped, orphaned>>

\* The rest of readReqBody (lines 100, 639-640): the digest is recorded,
\* then the blob is opened; a blob that does not open returns the error
\* without a status.
ReplayRecord(h) ==
    /\ ~fatal
    /\ pc[h] = "replayRecord"
    /\ LET i == loc[h].httpSession
           plaintext == GCMDecrypt(loc[h].key, loc[h].data)
       IN  /\ sessions' = [sessions EXCEPT ![i].replay = RecordDigest(@, loc[h].data)]
           /\ accepted' = [accepted EXCEPT ![i][loc[h].data] = @ + 1]
           /\ IF plaintext = CryptoError
              THEN Step(h, "done", [loc[h] EXCEPT !.fails = {"decrypt"}], resp[h])
              ELSE Step(h, IF loc[h].handler = "sessionHandler" THEN "dispatch"
                                                                 ELSE "registryRemove",
                        [loc[h] EXCEPT !.plaintext = plaintext], resp[h])
    /\ UNCHANGED <<Resp, conf, req, active, registry, checkin, Send, nextID, served, sent, fatal,
                   looked, stopped, orphaned>>

\* Two goroutines inside isReplayAttack on one session, one of them at the
\* assignment: the map is accessed without a lock, and the runtime may
\* throw "concurrent map read and map write", which ends the process.
MapRace(h) ==
    /\ ~fatal
    /\ pc[h] = "replayRecord"
    /\ \E g \in Handlers \ {h} :
          /\ pc[g] \in {"readReqBody", "replayRecord"}
          /\ loc[g].httpSession = loc[h].httpSession
    /\ fatal' = TRUE
    /\ UNCHANGED <<conf, pc, req, loc, resp, shared, served, sent, history>>

\* The handlers sliverHandlers.GetSessionHandlers registers, by envelope type.
SessionHandlerTypes == {1}

\* A dispatch that goes by the envelope's type alone.
dispatchByType(envelope, table) ==
    IF envelope.Type \in SessionHandlerTypes THEN "handler" ELSE "none"
\* sessionHandler lines 571-579: where the envelope goes.  With an id, to
\* the channel the response table holds for it, if any; without, to the
\* handler of its type, if any.
dispatch(envelope, table) ==
    IF envelope.ID # 0
    THEN IF envelope.ID \in table THEN "channel" ELSE "none"
    ELSE IF envelope.Type \in SessionHandlerTypes THEN "handler" ELSE "none"

\* A response channel: whether its caller is receiving on it, how many
\* envelopes its buffer holds, and the buffer's capacity.
RespCapacities == {0, 1}
RespChannel(cap) == [receiving |-> TRUE, buffered |-> 0, cap |-> cap]
\* The send resp <- envelope of line 574.  A receiving caller takes the
\* envelope (and receives no more); otherwise the envelope goes into the
\* buffer if there is room; otherwise the send blocks.
SendBlocks(ch) == ~ch.receiving /\ ch.buffered >= ch.cap
ChannelSend(ch) ==
    IF ch.receiving THEN [ch EXCEPT !.receiving = FALSE]
    ELSE [ch EXCEPT !.buffered = @ + 1]
\* The handlers inside sessionHandler's RespMutex.RLock (lines 572-573):
\* those whose send on a response channel of the session blocks.
RLockHeld(i) == {h \in Handlers : pc[h] = "deliver" /\ loc[h].httpSession = i}

\* sessionHandler after readReqBody (lines 567-581): the envelope goes to
\* the response channel of its id or, with id 0, to the handler of its
\* type; then 202.  A send that blocks leaves the handler in the send,
\* inside the read lock and without a response.
Dispatch(h) ==
    /\ ~fatal
    /\ pc[h] = "dispatch"
    /\ LET i == loc[h].httpSession
           envelope == loc[h].plaintext
           target == dispatch(envelope, DOMAIN Resp[i])
           l == [loc[h] EXCEPT !.envelope = envelope, !.target = target]
       IN  IF target # "channel"
           THEN /\ Step(h, "done", l, WriteHeader(resp[h], StatusAccepted))
                /\ UNCHANGED Resp
           ELSE IF SendBlocks(Resp[i][envelope.ID])
           THEN /\ Step(h, "deliver", l, resp[h])
                /\ UNCHANGED Resp
           ELSE /\ Step(h, "done", l, WriteHeader(resp[h], StatusAccepted))
                /\ Resp' = [Resp EXCEPT ![i][envelope.ID] = ChannelSend(@)]
    /\ UNCHANGED <<conf, req, active, sessions, registry, checkin, Send, nextID, served,
                   sent, fatal, history>>

\* stopHandler line 666: core.Sessions.Remove.
RegistryRemove(h) ==
    /\ ~fatal
    /\ pc[h] = "registryRemove"
    /\ registry' = registry \ {loc[h].httpSession}
    /\ Step(h, "storeRemove", loc[h], resp[h])
    /\ UNCHANGED <<Resp, conf, req, active, sessions, checkin, Send, nextID, served, sent,
                   fatal, history>>

\* stopHandler lines 667-668: HTTPSessions.Remove, then 202.
StoreRemove(h) ==
    /\ ~fatal
    /\ pc[h] = "storeRemove"
    /\ active' = Remove(active, loc[h].httpSession)
    /\ stopped' = stopped \cup {loc[h].httpSession}
    /\ Step(h, "done", loc[h], WriteHeader(resp[h], StatusAccepted))
    /\ UNCHANGED <<Resp, conf, req, sessions, registry, checkin, Send, nextID, served, sent,
                   fatal, accepted, looked, orphaned>>

\* pollHandler's select, the Send case (lines 595-603): the envelope is
\* taken from the channel whether or not the client is still there.
PollReceive(h, T) ==
    /\ ~fatal
    /\ pc[h] = "select"
    /\ LET i == loc[h].httpSession
       IN  /\ Send[i] # <<>>
           /\ Send' = [Send EXCEPT ![i] = Tail(@)]
           /\ orphaned' = IF loc[h].cancelled /\ Head(Send[i]).seq > loc[h].sentBefore
                          THEN orphaned \cup {Head(Send[i])} ELSE orphaned
           /\ \E sealOK \in T.seals :
                 LET envelope == Head(Send[i])
                     ciphertext == IF sealOK THEN GCMSeal(loc[h].key, 0, envelope)
                                   ELSE NoBody
                     r == WriteHeader(resp[h], StatusOK)
                     l == [loc[h] EXCEPT !.envelope = envelope,
                                 !.fails = IF sealOK THEN {} ELSE {"seal"}]
                 IN  IF loc[h].enc = 0
                     THEN Step(h, "done", l, Panic(r))
                     ELSE Step(h, "done", l, Write(r, Encode(loc[h].enc, ciphertext)))
    /\ UNCHANGED <<Resp, conf, req, active, sessions, registry, checkin, nextID, served, sent,
                   fatal, accepted, looked, stopped>>

\* pollHandler's select, the time.After case (lines 604-608).
PollTimeout(h) ==
    /\ ~fatal
    /\ pc[h] = "select"
    /\ \E etag \in randomEtag :
          Step(h, "done", loc[h],
               WriteHeader(SetEtag(resp[h], etag), StatusNoContent))
    /\ UNCHANGED <<conf, req, shared, served, sent, fatal, history>>

\* The client of a waiting poll goes away; the handler does not look at
\* the request's context.
Disconnect(h) ==
    /\ ~fatal
    /\ pc[h] = "select"
    /\ ~loc[h].cancelled
    /\ loc' = [loc EXCEPT ![h].cancelled = TRUE, ![h].sentBefore = sent]
    /\ UNCHANGED <<conf, pc, req, resp, shared, served, sent, fatal, history>>

\* startSessionHandler line 530: Send is made without a buffer.
SendCapacity == 0
\* The senders on a session's Send channel that wait for a receiver.
WaitingSenders(i) == SubSeq(Send[i], SendCapacity + 1, Len(Send[i]))

\* The request ids the operator plane awaits replies under.
RequestIDs == {e.ID : e \in OperatorEnvelopes}
\* The response table with an entry put in or deleted.
RespPut(table, id, ch) ==
    [x \in DOMAIN table \cup {id} |-> IF x = id THEN ch ELSE table[x]]
RespDelete(table, id) == [x \in DOMAIN table \ {id} |-> table[x]]

\* The operator plane begins to await a reply under a request id: under
\* the write lock a channel is made and put in the session's response
\* table, and the caller receives on it.
OperatorRequest(i) ==
    /\ ~fatal
    /\ i \in registry
    /\ RLockHeld(i) = {}
    /\ \E id \in RequestIDs, cap \in RespCapacities :
          /\ id \notin DOMAIN Resp[i]
          /\ Resp' = [Resp EXCEPT ![i] = RespPut(@, id, RespChannel(cap))]
    /\ UNCHANGED <<conf, pc, req, loc, resp, active, sessions, registry, checkin, Send,
                   nextID, served, sent, fatal, history>>

\* A caller stops waiting for its reply: it no longer receives, its entry
\* still in the table.
CallerTimeout(i) ==
    /\ ~fatal
    /\ \E id \in DOMAIN Resp[i] :
          /\ Resp[i][id].receiving
          /\ Resp' = [Resp EXCEPT ![i][id].receiving = FALSE]
    /\ UNCHANGED <<conf, pc, req, loc, resp, active, sessions, registry, checkin, Send,
                   nextID, served, sent, fatal, history>>

\* A caller that has received its reply or stopped waiting removes its
\* entry under the write lock, which no reader may hold.
CallerRemove(i) ==
    /\ ~fatal
    /\ RLockHeld(i) = {}
    /\ \E id \in DOMAIN Resp[i] :
          /\ ~Resp[i][id].receiving
          /\ Resp' = [Resp EXCEPT ![i] = RespDelete(@, id)]
    /\ UNCHANGED <<conf, pc, req, loc, resp, active, sessions, registry, checkin, Send,
                   nextID, served, sent, fatal, history>>

\* The operator plane sends an envelope on a registered session's Send
\* channel (unbuffered: the sender waits for a poll to receive).
OperatorSend(i) ==
    /\ ~fatal
    /\ i \in registry
    /\ sent < MaxSends
    /\ \E e \in OperatorEnvelopes :
          Send' = [Send EXCEPT ![i] = Append(@, [e EXCEPT !.seq = sent + 1])]
    /\ sent' = sent + 1
    /\ UNCHANGED <<Resp, conf, pc, req, loc, resp, active, sessions, registry, checkin, nextID,
                   served, fatal, history>>

HandlerStep(h, T) ==
    \/ RsaKeyHandler(h, T)
    \/ StartSessionHandler(h, T)
    \/ RegisterSession(h)
    \/ PublishSession(h)
    \/ RespondSession(h, T)
    \/ LookupSession(h)
    \/ ReadReqBody(h, T)
    \/ ReplayRecord(h)
    \/ Dispatch(h)
    \/ RegistryRemove(h)
    \/ StoreRemove(h)
    \/ PollReceive(h, T)
    \/ PollTimeout(h)
    \/ Disconnect(h)

\* The implants' protocol traffic, handled concurrently.
Init == InitWith({DefaultConf})
Next ==
    \/ \E h \in Handlers : Arrive(h, ProtocolTraffic)
    \/ \E h \in Handlers : HandlerStep(h, ProtocolTraffic)
    \/ \E h \in Handlers : MapRace(h)
    \/ \E i \in IDs : OperatorSend(i)
Spec == Init /\ [][Next]_vars

\* Any traffic on the C2 routes, one request at a time, behind the OTP
\* gate and under any configuration of the poll jitter.
InitSeq == InitWith(SessionConfs)
NextSeq ==
    \/ Arrive(1, AnyTraffic)
    \/ HandlerStep(1, AnyTraffic)
    \/ \E i \in IDs : OperatorSend(i)
SpecSeq == InitSeq /\ [][NextSeq]_vars

\* Any request at the router, one at a time, with and without a website
\* and a stage.
InitRouter == InitWith(RouterConfs)
NextRouter ==
    \/ Arrive(1, RouterTraffic)
    \/ HandlerStep(1, RouterTraffic)
    \/ \E i \in IDs : OperatorSend(i)
SpecRouter == InitRouter /\ [][NextRouter]_vars

\* Ingress of envelopes of every kind, one request at a time, beside the
\* operator plane's callers, which await replies, stop waiting and remove
\* their entries.
NextDispatch ==
    \/ Arrive(1, DispatchTraffic)
    \/ StartSessionHandler(1, DispatchTraffic)
    \/ RegisterSession(1)
    \/ PublishSession(1)
    \/ RespondSession(1, DispatchTraffic)
    \/ LookupSession(1)
    \/ ReadReqBody(1, DispatchTraffic)
    \/ ReplayRecord(1)
    \/ Dispatch(1)
    \/ \E i \in IDs : OperatorRequest(i)
    \/ \E i \in IDs : CallerTimeout(i)
    \/ \E i \in IDs : CallerRemove(i)
SpecDispatch == Init /\ [][NextDispatch]_vars

\* Stop requests of every kind, one request at a time.
NextStop ==
    \/ Arrive(1, StopTraffic)
    \/ StartSessionHandler(1, StopTraffic)
    \/ RegisterSession(1)
    \/ PublishSession(1)
    \/ RespondSession(1, StopTraffic)
    \/ LookupSession(1)
    \/ ReadReqBody(1, StopTraffic)
    \/ ReplayRecord(1)
    \/ Dispatch(1)
    \/ RegistryRemove(1)
    \/ StoreRemove(1)
SpecStop == Init /\ [][NextStop]_vars

\* The same, with every handler goroutine and every caller that wants the
\* write lock scheduled as long as it can take a step.
HandlerProgress(h) ==
    \/ StartSessionHandler(h, DispatchTraffic)
    \/ RegisterSession(h)
    \/ PublishSession(h)
    \/ RespondSession(h, DispatchTraffic)
    \/ LookupSession(h)
    \/ ReadReqBody(h, DispatchTraffic)
    \/ ReplayRecord(h)
    \/ Dispatch(h)
SpecDispatchFair ==
    /\ SpecDispatch
    /\ WF_vars(HandlerProgress(1))
    /\ \A i \in IDs : WF_vars(CallerRemove(i))

\* ------------------------------------------------------------------ claims
SessionHandlers == {"sessionHandler", "pollHandler", "stopHandler"}
BodyHandlers == {"sessionHandler", "stopHandler"}
SessionState == <<active, sessions, registry, checkin>>

\* C1: on one session, a request carrying a non-empty blob that an earlier
\* request on that session has passed with is rejected as a replay with 404
\* and is neither decrypted nor dispatched; the first request on a session
\* carrying a blob passes the replay check, whatever the replay sets of the
\* other sessions hold.
ReplayRejectedAfterFirst ==
    \A h \in Handlers :
        loc[h].handler \in BodyHandlers /\ loc[h].data # NoBody =>
            /\ loc[h].seenBefore =>
                  /\ pc[h] = "done"
                  /\ loc[h].fails = {"replay"}
                  /\ resp[h].status = StatusNotFound
                  /\ loc[h].plaintext = NoBody
                  /\ loc[h].envelope = NoBody
            /\ loc[h].first => "replay" \notin loc[h].fails

\* C1, its case: a blob recorded on one session is dispatched, as the
\* first of its session, on another.
ReplayAcceptedOnOtherSession ==
    \E h \in Handlers : \E j \in IDs :
        /\ pc[h] = "done"
        /\ loc[h].handler = "sessionHandler"
        /\ loc[h].first
        /\ resp[h].status = StatusAccepted
        /\ j # loc[h].httpSession
        /\ Digest(loc[h].data) \in sessions[j].replay

\* C2: of the handlers that run on one session with one blob, at most one
\* passes the replay check and goes on to open the blob.
ReplayCheckAtomic ==
    \A i \in IDs : \A b \in Blobs : accepted[i][b] <= 1

\* C3: a request on the ingress, long-poll or stop route whose cookies name
\* no stored session is answered with 403 and changes neither the store
\* nor any session.
UnknownSessionForbidden ==
    [][\A h \in Handlers :
          /\ pc[h] \in SessionHandlers
          /\ getHTTPSession(active, req[h].cookies) = 0
          /\ pc'[h] # pc[h]
          => /\ pc'[h] = "done"
             /\ resp'[h].status = StatusForbidden
             /\ UNCHANGED SessionState]_vars

\* The request that arrives in this step, or one that arrived before it, is
\* on a C2 path and has no one-character parameter selecting an encoder.
ArrivedWithoutNonce(h) ==
    /\ served' = served + 1
    /\ pc[h] \in {"idle", "done"}
    /\ pc'[h] # "idle"
    /\ req'[h].path.ext \in C2Exts
    /\ ~HasValidNonce(req'[h].query)

\* C4, as amended: a request to a C2 path without a valid nonce runs no C2
\* handler and leaves the store and every session unchanged; it is answered
\* with 404 when no website is configured, the path holds no ".woff" and
\* the method is GET or POST.
NoNonceNoHandler ==
    [][\A h \in Handlers :
          ArrivedWithoutNonce(h)
          => /\ pc'[h] = "done"
             /\ loc'[h].handler \notin C2Handlers
             /\ UNCHANGED SessionState
             /\ (~req'[h].path.woff /\ ~conf.Website /\ req'[h].method \in {"GET", "POST"}
                    => resp'[h].status = StatusNotFound)]_vars

\* C4, its case: with a session in the store, a request to a C2 path whose
\* parameters select no encoder has been answered by the 404 handler.
NoNonceAnswered ==
    \E h \in Handlers :
        /\ pc[h] = "done"
        /\ req[h].path.ext \in C2Exts
        /\ req[h].query # {}
        /\ ~HasValidNonce(req[h].query)
        /\ loc[h].handler = "default404Handler"
        /\ resp[h].status = StatusNotFound
        /\ DOMAIN active # {}

\* C4, as claimed: a request to a C2 path without a valid nonce, with any
\* method and with or without a website, is answered with 404, runs no C2
\* handler and leaves the store and every session unchanged.
NoNonceNotFound ==
    [][\A h \in Handlers :
          ArrivedWithoutNonce(h)
          => /\ resp'[h].status = StatusNotFound
             /\ loc'[h].handler \notin C2Handlers
             /\ UNCHANGED SessionState]_vars

\* C5: a session is in the store or in the registry only once its start
\* handler has set the cookie, and its start request does not end in 404.
DiscoverableOnlyStaged ==
    \A h \in Handlers :
        /\ loc[h].handler = "startSessionHandler"
        /\ loc[h].created # 0
        /\ loc[h].created \in DOMAIN active \cup registry
        => /\ resp[h].cookie = loc[h].created
           /\ resp[h].status # StatusNotFound

\* C6: a start request in which a step failed is answered with 404 and no
\* body, and no session was added for it.
StartFailureNotFound ==
    \A h \in Handlers :
        pc[h] = "done" /\ loc[h].handler = "startSessionHandler" /\ loc[h].fails # {}
        => /\ resp[h].status = StatusNotFound
           /\ resp[h].body = NoBody
           /\ loc[h].created = 0

\* C7: the response of a start request in which every step succeeded has
\* a body that, decoded with the request's encoder and opened under the
\* key K the implant sent, is the value of the response's cookie, and the
\* store holds under that value a session with key K.
StartResponseOpensToCookie ==
    \A h \in Handlers :
        pc[h] = "done" /\ loc[h].handler = "startSessionHandler" /\ loc[h].fails = {}
        => LET K == UnmarshalSessionInit(loc[h].plaintext)
               id == resp[h].cookie
           IN  /\ resp[h].status = StatusOK
               /\ id # 0
               /\ GCMDecrypt(K, Decode(loc[h].enc, resp[h].body)) = [k |-> "id", id |-> id]
               /\ Get(active, id) = id
               /\ sessions[id].Key = K

\* C7, its case: a start request has succeeded and set a cookie.
StartSucceeded ==
    \E h \in Handlers :
        /\ pc[h] = "done"
        /\ loc[h].handler = "startSessionHandler"
        /\ loc[h].fails = {}
        /\ resp[h].status = StatusOK
        /\ resp[h].cookie \in DOMAIN active

\* C8: a stop request with a valid body removes the session from the
\* registry and the store and is answered with 202, and a request on the
\* session routes that arrives after it with the same cookie gets 403.
StoppedSessionForbidden ==
    \A h \in Handlers :
        pc[h] = "done" /\ loc[h].handler \in SessionHandlers
        => /\ (loc[h].handler = "stopHandler" /\ loc[h].httpSession # 0
                  /\ loc[h].fails = {}
                  => /\ resp[h].status = StatusAccepted
                     /\ loc[h].httpSession \notin DOMAIN active \cup registry)
           /\ ((\E i \in loc[h].stoppedBefore : req[h].cookies = <<i>>)
                  => resp[h].status = StatusForbidden)

\* C9: a poll on an existing session ends either with 200 and a body that
\* decodes and opens under the session key to the envelope it took, or,
\* having taken none, with 204, an empty body and an ETag.
PollEndsWithEnvelopeOrNoContent ==
    \A h \in Handlers :
        pc[h] = "done" /\ loc[h].handler = "pollHandler" /\ loc[h].httpSession # 0
        => /\ ~resp[h].aborted
           /\ \/ /\ resp[h].status = StatusOK
                 /\ loc[h].envelope # NoBody
                 /\ GCMDecrypt(loc[h].key, Decode(loc[h].enc, resp[h].body))
                       = loc[h].envelope
              \/ /\ resp[h].status = StatusNoContent
                 /\ loc[h].envelope = NoBody
                 /\ resp[h].body = NoBody
                 /\ resp[h].etag \in Etags

\* C10: no envelope sent after a poll's client went away is taken by that
\* poll.
NoEnvelopeOrphaned == orphaned = {}

\* The ids whose Add has run: those drawn, less the ones whose start
\* handler still stands before its Add.
Added == {i \in 1 .. nextID : ~\E h \in Handlers : pc[h] = "publish" /\ loc[h].created = i}

\* C11: whatever the interleaving of the handlers' Add, Get and Remove
\* calls, a session a Get returned, and every session in the store, was
\* completely constructed before its Add, and the store holds exactly the
\* ids that were added and not removed since.
StoreHoldsNetOfAddRemove ==
    /\ \A i \in DOMAIN active : active[i] = i /\ sessions[i].made
    /\ \A h \in Handlers :
          loc[h].handler \in SessionHandlers /\ loc[h].httpSession # 0
          => sessions[loc[h].httpSession].made
    /\ DOMAIN active = Added \ stopped

\* C11, its case: a Get has returned a session to one handler while
\* another handler's Remove of that session has completed, and another
\* session was added meanwhile.
GetBesideRemove ==
    \E h \in Handlers : \E g \in Handlers \ {h} :
        /\ pc[h] = "done" /\ loc[h].handler = "stopHandler"
        /\ resp[h].status = StatusAccepted
        /\ pc[g] \in {"readReqBody", "select"}
        /\ loc[g].httpSession = loc[h].httpSession
        /\ DOMAIN active # {}

\* C13: a request rejected as a replay gets 404 and leaves its session in
\* the store and the registry with its key; the ingress request that
\* follows it on that session with a blob new to the session that opens
\* under the session key is accepted with 202.
ReplayLeavesSessionUsable ==
    \A h \in Handlers :
        /\ pc[h] = "done" /\ loc[h].fails = {"replay"}
           => /\ resp[h].status = StatusNotFound
              /\ loc[h].httpSession \in DOMAIN active \cap registry
              /\ sessions[loc[h].httpSession].Key = loc[h].key
        /\ /\ pc[h] = "done" /\ loc[h].handler = "sessionHandler"
           /\ loc[h].afterReplay # 0 /\ loc[h].httpSession = loc[h].afterReplay
           /\ loc[h].data # NoBody /\ loc[h].first
           /\ GCMDecrypt(sessions[loc[h].httpSession].Key, loc[h].data) # CryptoError
           => /\ resp[h].status = StatusAccepted
              /\ loc[h].envelope = GCMDecrypt(loc[h].key, loc[h].data)

\* C13, its case: the request after a replay rejection, on the same
\* session, has been accepted.
AcceptedAfterReplay ==
    \E h \in Handlers :
        /\ pc[h] = "done" /\ loc[h].handler = "sessionHandler"
        /\ loc[h].afterReplay # 0 /\ loc[h].httpSession = loc[h].afterReplay
        /\ loc[h].first
        /\ resp[h].status = StatusAccepted

\* C14: an ingress request on an existing session whose body is no replay
\* and does not open under the session key is answered with 202 or 404,
\* dispatches no envelope and leaves the session in the store.
DecryptFailureOpaque ==
    \A h \in Handlers :
        /\ pc[h] = "done" /\ loc[h].handler = "sessionHandler"
        /\ loc[h].httpSession # 0 /\ loc[h].fails = {"decrypt"}
        => /\ resp[h].status \in {StatusAccepted, StatusNotFound}
           /\ loc[h].envelope = NoBody
           /\ loc[h].httpSession \in DOMAIN active

\* C15: a request on a C2 route is accepted by the nonce filter, and so
\* handed to the route's handler, exactly when some one-character
\* parameter's digits select an encoder, whichever other parameters the
\* URL carries.
FilterAcceptsIffSomeValid ==
    [][\A h \in Handlers :
          /\ served' = served + 1
          /\ pc[h] \in {"idle", "done"}
          /\ pc'[h] # "idle"
          /\ req'[h].path.ext \in C2Exts
          /\ req'[h].method \in RouteMethods(req'[h].path.ext)
          => (loc'[h].handler \in C2Handlers <=> HasValidNonce(req'[h].query))]_vars

\* C16: an ingress request that decrypts to an envelope delivers it on the
\* channel the response table holds for its id and leaves the entry; with
\* an id the table does not hold it delivers nothing and invokes no
\* handler; with id zero it invokes the handler registered for the type,
\* if any; and it is answered with 202 and no body.
DispatchByIdThenType ==
    [][\A h \in Handlers :
          pc[h] = "dispatch" /\ pc'[h] = "done"
          => LET envelope == loc[h].plaintext
                 table == DOMAIN Resp[loc[h].httpSession]
             IN  /\ loc'[h].envelope = envelope
                 /\ envelope.ID # 0 /\ envelope.ID \in table
                       => loc'[h].target = "channel"
                 /\ envelope.ID # 0 /\ envelope.ID \notin table
                       => loc'[h].target = "none"
                 /\ envelope.ID = 0
                       => loc'[h].target = IF envelope.Type \in SessionHandlerTypes
                                           THEN "handler" ELSE "none"
                 /\ \A i \in IDs : DOMAIN Resp'[i] = DOMAIN Resp[i]
                 /\ resp'[h].status = StatusAccepted
                 /\ resp'[h].body = NoBody]_vars

\* C16, its case: a reply to a request id the operator plane awaits has
\* been delivered on its channel, the entry still in the table.
ReplyDelivered ==
    \E h \in Handlers :
        /\ pc[h] = "done" /\ loc[h].handler = "sessionHandler"
        /\ loc[h].target = "channel"
        /\ loc[h].envelope.ID \in DOMAIN Resp[loc[h].httpSession]
        /\ resp[h].status = StatusAccepted

\* C17: the egress queue is an unbounded FIFO: no send of the operator
\* plane waits for a poll, and a poll returns an envelope sent before
\* every envelope still on the queue.
EgressUnboundedFifo ==
    /\ \A i \in IDs : WaitingSenders(i) = <<>>
    /\ \A h \in Handlers :
          pc[h] = "done" /\ loc[h].handler = "pollHandler" /\ loc[h].envelope # NoBody
          => \A k \in 1 .. Len(Send[loc[h].httpSession]) :
                 Send[loc[h].httpSession][k].seq > loc[h].envelope.seq

\* C18: with a base timeout T and a jitter J, zero included, a poll on an
\* existing session waits with a timeout between T and T + J, and one that
\* took no envelope ends with 204.
PollTimeoutWithinJitter ==
    \A h \in Handlers :
        /\ pc[h] \in {"select", "done"}
        /\ loc[h].handler = "pollHandler"
        /\ loc[h].httpSession # 0
        => /\ loc[h].timeout \in conf.LongPollTimeoutMilli ..
                                  conf.LongPollTimeoutMilli + conf.LongPollJitterMilli
           /\ pc[h] = "done" /\ loc[h].envelope = NoBody
                 => resp[h].status = StatusNoContent

\* C19: in every state, under any interleaving of the handlers, every
\* session the local store can return is registered in the external
\* registry.
StoreWithinRegistry == DOMAIN active \subseteq registry

\* C20: for a request the nonce filter accepted, the handler's own
\* evaluation of the nonce gives a valid encoder: no handler fails for a
\* missing encoder, and a poll that found its session holds one.
HandlerNonceAsFiltered ==
    \A h \in Handlers :
        loc[h].handler \in C2Handlers
        => /\ "encoder" \notin loc[h].fails
           /\ loc[h].handler = "pollHandler" /\ loc[h].httpSession # 0
                 => loc[h].enc \in EncoderMap

\* C21: every ingress request on an existing session eventually completes
\* with a response, also when the caller awaiting its envelope's id no
\* longer receives; and a caller that no longer receives eventually has
\* its entry removed from the response table.
IngressCompletesCallerRemoves ==
    /\ \A h \in Handlers :
          (loc[h].handler = "sessionHandler" /\ pc[h] \in {"readReqBody", "dispatch"})
             ~> (pc[h] = "done" /\ resp[h].status # 0)
    /\ \A i \in IDs : \A id \in RequestIDs :
          (id \in DOMAIN Resp[i] /\ ~Resp[i][id].receiving)
             ~> (id \notin DOMAIN Resp[i])

\* A stop request whose body passed the four checks: an encoder was
\* selected, the body decoded to a blob the session had not accepted
\* before, and the blob was sealed under the session's key.
StopBodyPassed(h) ==
    /\ loc[h].handler = "stopHandler"
    /\ loc[h].fails = {}
    /\ loc[h].data \in Blobs
    /\ loc[h].data.key = sessions[loc[h].httpSession].Key
    /\ ~loc[h].seenBefore

\* C22: a stop request on an existing session whose body fails encoder
\* selection, decoding, the replay check or the AES-GCM open (an empty
\* body too) is not answered with 202; no session leaves the store or the
\* registry except by a stop request whose body passed the four checks,
\* and no session's key changes.
FailedStopKeepsSession ==
    [][/\ \A h \in Handlers :
             /\ pc[h] # "done" /\ pc'[h] = "done"
             /\ loc'[h].handler = "stopHandler"
             /\ loc'[h].httpSession # 0
             /\ loc'[h].fails # {}
             => /\ resp'[h].status # StatusAccepted
                /\ loc'[h].httpSession \in DOMAIN active'
                /\ loc'[h].httpSession \in registry'
                /\ sessions'[loc'[h].httpSession].Key = loc'[h].key
       /\ \A i \in DOMAIN active \ DOMAIN active' :
             \E h \in Handlers : loc[h].httpSession = i /\ StopBodyPassed(h)
       /\ \A i \in registry \ registry' :
             \E h \in Handlers : loc[h].httpSession = i /\ StopBodyPassed(h)
       /\ \A i \in IDs : sessions[i].made => sessions'[i].Key = sessions[i].Key]_vars

\* C22, its case: a stop request with an empty body on an existing session
\* has completed, the session still in the store and the registry.
EmptyStopRefused ==
    \E h \in Handlers :
        /\ pc[h] = "done" /\ loc[h].handler = "stopHandler"
        /\ loc[h].httpSession \in DOMAIN active \cap registry
        /\ loc[h].fails = {"decrypt"} /\ loc[h].data = NoBody
        /\ resp[h].status = StatusOK

====
